---- MODULE Spec2Model ----
(***************************************************************************)
(* Model of backend/app/main.py, the geometric core of the SLP contact     *)
(* angle analyzer: ransac_line_fit, solve_ellipse_line_intersection,       *)
(* analytic_tangent_slope_at_point, bilinear_sample, sample_along_normal,  *)
(* subpixel_from_gradient and the geometric part of analyze.               *)
(*                                                                         *)
(* Floating point numbers are modelled as fixed point numbers with SCALE   *)
(* units per 1.0, extended with +inf, -inf and NaN, which follow the IEEE  *)
(* rules the Python/numpy operators follow.  The kind "exc" stands for a   *)
(* raised Python exception (ZeroDivisionError, ValueError, IndexError); it *)
(* propagates through every operation.  Thresholds of the code that are    *)
(* smaller than one unit (1e-6, 1e-8, 1e-9, 1e-12) compare as "is zero".   *)
(***************************************************************************)
EXTENDS Integers, Sequences, FiniteSets, TLC

VARIABLES
    field,      \* refiner: the intensity field img_gray
    rop,        \* refiner: the operation performed last
    bsArgs,     \* refiner: the coordinates <<x, y>> given to bilinear_sample
    bsRes,      \* refiner: what bilinear_sample returned and the pixels it read
    prof,       \* refiner: the profile sample_along_normal returned
    sub,        \* refiner: what subpixel_from_gradient returned
    rng,        \* fitter: the state of the process-wide generator of module random
    rng0,       \* fitter: the state of the generator when the process started
    args,       \* fitter: per request, the arguments [points, thresh] of ransac_line_fit
    fit,        \* fitter: per request, the locals of ransac_line_fit and its result
    apc,        \* analyze: the position reached in analyze
    inp,        \* analyze: the contour, the image size and the fitted ellipse
    an          \* analyze: the locals of analyze

refVars == <<field, rop, bsArgs, bsRes, prof, sub>>
fitVars == <<rng, rng0, args, fit>>
anVars == <<apc, inp, an>>
vars == <<field, rop, bsArgs, bsRes, prof, sub, rng, rng0, args, fit, apc, inp, an>>

\* ---------------------------------------------------------------- bounds
\* units of the fixed point representation per 1.0
SCALE == 100
\* largest intensity field of the model
MaxH == 2
MaxW == 3
\* longest profile sampled
MaxLen == 5
\* rounds of the sampling loop (n_iters) in the model
MaxIters == 3
\* most points given to the line fitter
MaxPts == 3
\* number of states of the model's pseudo-random generator
RngMod == 8
\* width and height of the image analyze is given
ImgW == 6
ImgH == 5

\* ------------------------------------------------------ float arithmetic
Fin(v) == [k |-> "fin", v |-> v]
F(n) == Fin(n * SCALE)
Inf == [k |-> "inf", v |-> 0]
NInf == [k |-> "ninf", v |-> 0]
NaN == [k |-> "nan", v |-> 0]
Exc == [k |-> "exc", v |-> 0]

IsFin(x) == x.k = "fin"
IsInfinite(x) == x.k \in {"inf", "ninf"}
IsNaN(x) == x.k = "nan"
IsExc(x) == x.k = "exc"

AbsI(n) == IF n < 0 THEN -n ELSE n
SgnI(n) == IF n < 0 THEN -1 ELSE IF n > 0 THEN 1 ELSE 0

\* n / d rounded to the nearest integer, d > 0
RoundDiv(n, d) == (2 * n + d) \div (2 * d)

\* sign of an extended number: -1, 0, 1
Sgn(x) == IF x.k = "inf" THEN 1 ELSE IF x.k = "ninf" THEN -1 ELSE SgnI(x.v)

SignedInf(s) == IF s < 0 THEN NInf ELSE Inf

FNeg(x) ==
    CASE x.k = "fin" -> Fin(-x.v)
      [] x.k = "inf" -> NInf
      [] x.k = "ninf" -> Inf
      [] OTHER -> x

FAbs(x) ==
    CASE x.k = "fin" -> Fin(AbsI(x.v))
      [] x.k = "ninf" -> Inf
      [] OTHER -> x

FAdd(x, y) ==
    CASE IsExc(x) \/ IsExc(y) -> Exc
      [] IsNaN(x) \/ IsNaN(y) -> NaN
      [] IsFin(x) /\ IsFin(y) -> Fin(x.v + y.v)
      [] IsFin(x) -> y
      [] IsFin(y) -> x
      [] x.k = y.k -> x
      [] OTHER -> NaN

FSub(x, y) == FAdd(x, FNeg(y))

FMul(x, y) ==
    CASE IsExc(x) \/ IsExc(y) -> Exc
      [] IsNaN(x) \/ IsNaN(y) -> NaN
      [] IsFin(x) /\ IsFin(y) -> Fin(SgnI(x.v) * SgnI(y.v) * RoundDiv(AbsI(x.v) * AbsI(y.v), SCALE))
      [] Sgn(x) = 0 \/ Sgn(y) = 0 -> NaN
      [] OTHER -> SignedInf(Sgn(x) * Sgn(y))

\* Python float division: a zero divisor raises ZeroDivisionError
FDiv(x, y) ==
    CASE IsExc(x) \/ IsExc(y) -> Exc
      [] IsNaN(x) \/ IsNaN(y) -> NaN
      [] IsFin(y) /\ y.v = 0 -> Exc
      [] IsFin(x) /\ IsFin(y) -> Fin(SgnI(x.v) * SgnI(y.v) * RoundDiv(AbsI(x.v) * SCALE, AbsI(y.v)))
      [] IsFin(x) -> Fin(0)
      [] IsFin(y) -> SignedInf(Sgn(x) * Sgn(y))
      [] OTHER -> NaN

\* numpy array division: a zero divisor gives inf or nan
NpDiv(x, y) ==
    IF IsFin(y) /\ y.v = 0 /\ ~IsExc(x)
    THEN (IF IsNaN(x) \/ Sgn(x) = 0 THEN NaN ELSE SignedInf(Sgn(x)))
    ELSE FDiv(x, y)

\* comparisons: every comparison with NaN is false
Ord(x) == x.k \in {"fin", "inf", "ninf"}
FLt(x, y) ==
    /\ Ord(x) /\ Ord(y)
    /\ \/ x.k = "ninf" /\ y.k # "ninf"
       \/ x.k = "fin" /\ y.k = "inf"
       \/ x.k = "fin" /\ y.k = "fin" /\ x.v < y.v
FEq(x, y) == Ord(x) /\ Ord(y) /\ x = y
FLe(x, y) == FLt(x, y) \/ FEq(x, y)
FGt(x, y) == FLt(y, x)
FGe(x, y) == FLe(y, x)

\* Python's builtin max(a, b) and min(a, b): the first argument is kept
\* unless the second compares greater (smaller)
PyMax(a, b) == IF FGt(b, a) THEN b ELSE a
PyMin(a, b) == IF FLt(b, a) THEN b ELSE a

RECURSIVE ISqrtIter(_, _, _)
ISqrtIter(n, lo, hi) ==
    IF lo >= hi THEN lo
    ELSE LET mid == (lo + hi + 1) \div 2
         IN IF mid * mid <= n THEN ISqrtIter(n, mid, hi) ELSE ISqrtIter(n, lo, mid - 1)
ISqrt(n) == ISqrtIter(n, 0, IF n < 46340 THEN n ELSE 46340)

\* math.sqrt: a negative argument raises ValueError
FSqrt(x) ==
    CASE IsExc(x) -> Exc
      [] IsNaN(x) -> NaN
      [] x.k = "inf" -> Inf
      [] x.k = "ninf" -> Exc
      [] x.v < 0 -> Exc
      [] OTHER -> Fin(ISqrt(x.v * SCALE))

\* math.hypot: an infinite argument gives inf, even beside a NaN
FHypot(x, y) ==
    CASE IsExc(x) \/ IsExc(y) -> Exc
      [] IsInfinite(x) \/ IsInfinite(y) -> Inf
      [] IsNaN(x) \/ IsNaN(y) -> NaN
      [] OTHER -> Fin(ISqrt(x.v * x.v + y.v * y.v))

\* math.floor and round(): NaN raises ValueError, inf raises OverflowError;
\* None stands for the raised exception
None == -999999
PyFloor(x) == IF IsFin(x) THEN x.v \div SCALE ELSE None
\* round() rounds half to even
PyRound(x) ==
    IF ~IsFin(x) THEN None
    ELSE LET q == x.v \div SCALE
             r == x.v % SCALE
         IN IF 2 * r < SCALE THEN q
            ELSE IF 2 * r > SCALE THEN q + 1
            ELSE IF q % 2 = 0 THEN q ELSE q + 1

\* a threshold test abs(x) < eps for an eps of the code below one unit
\* (1e-6, 1e-8, 1e-9, 1e-12): true exactly of zero
BelowEps(x) == IsFin(x) /\ x.v = 0

\* Python evaluates an expression once when it assigns it to a name or
\* passes it to a call: Let(e, LAMBDA x : body) is body with x the value
\* of e
Let(e, Body(_)) == CHOOSE r \in {Body(x) : x \in {e}} : TRUE

\* ------------------------------------------------------- intensity field
\* a field is [h, w, px] with px[r][c] the brightness of row r, column c
\* numpy indexing a[i] of an axis of length n: -n <= i < n, negative wraps
NpIndexOk(i, n) == i # None /\ -n <= i /\ i < n
NpIndex(i, n) == IF i < 0 THEN i + n ELSE i
Pixel(img, r, c) ==
    IF NpIndexOk(r, img.h) /\ NpIndexOk(c, img.w)
    THEN F(img.px[NpIndex(r, img.h)][NpIndex(c, img.w)])
    ELSE Exc

\* a plausible slip: the last row and column taken as interpolable
OutsideInclusive(x, y, w, h) ==
    FLt(x, F(0)) \/ FGt(x, F(w - 1)) \/ FLt(y, F(0)) \/ FGt(y, F(h - 1))

\* line 120: the coordinate is outside the region that can be interpolated
Outside(x, y, w, h) ==
    FLt(x, F(0)) \/ FGe(x, F(w - 1)) \/ FLt(y, F(0)) \/ FGe(y, F(h - 1))

bilinear_sample(img, xa, ya) ==
    Let(<<xa, ya>>, LAMBDA xy :
    LET x == xy[1]
        y == xy[2]
        h == img.h
        w == img.w
    IN IF Outside(x, y, w, h)
       THEN LET xc == PyMin(PyMax(x, F(0)), F(w - 1))
                yc == PyMin(PyMax(y, F(0)), F(h - 1))
                r == PyRound(yc)
                c == PyRound(xc)
            IN IF r = None \/ c = None
               THEN [val |-> Exc, reads |-> {}, clamped |-> TRUE]
               ELSE [val |-> Pixel(img, r, c), reads |-> {<<r, c>>}, clamped |-> TRUE]
       ELSE LET x0 == PyFloor(x)
                y0 == PyFloor(y)
            IN IF x0 = None \/ y0 = None
               THEN [val |-> Exc, reads |-> {}, clamped |-> FALSE]
               ELSE LET x1 == x0 + 1
                        y1 == y0 + 1
                        dx == FSub(x, F(x0))
                        dy == FSub(y, F(y0))
                        v00 == Pixel(img, y0, x0)
                        v10 == Pixel(img, y0, x1)
                        v01 == Pixel(img, y1, x0)
                        v11 == Pixel(img, y1, x1)
                        v0 == FAdd(FMul(v00, FSub(F(1), dx)), FMul(v10, dx))
                        v1 == FAdd(FMul(v01, FSub(F(1), dx)), FMul(v11, dx))
                    IN [val |-> FAdd(FMul(v0, FSub(F(1), dy)), FMul(v1, dy)),
                        reads |-> {<<y0, x0>>, <<y0, x1>>, <<y1, x0>>, <<y1, x1>>},
                        clamped |-> FALSE])

\* an array with its elements computed once
Array(f) == f @@ <<>>

\* ts and intens are arrays indexed from 0
sample_along_normal(img, px, py, nx, ny, length, spacing) ==
    LET half == length \div 2
        t(i) == FMul(F(i - half), spacing)
    IN Let(<<px, py, nx, ny>>, LAMBDA pn :
       Let(Array([i \in 0..(length - 1) |->
                   bilinear_sample(img, FAdd(pn[1], FMul(pn[3], t(i))),
                                        FAdd(pn[2], FMul(pn[4], t(i))))]), LAMBDA s :
           [ts |-> Array([i \in 0..(length - 1) |-> t(i)]),
            intens |-> Array([i \in 0..(length - 1) |-> s[i].val]),
            reads |-> UNION {s[i].reads : i \in 0..(length - 1)}]))

\* np.argmax over an array of length n >= 1: the first index of the largest
\* value, and the first NaN if there is one
ArgMax(arr, n) ==
    Let(arr, LAMBDA a :
    IF \E i \in 0..(n - 1) : IsNaN(a[i])
    THEN CHOOSE i \in 0..(n - 1) : IsNaN(a[i]) /\ \A j \in 0..(i - 1) : ~IsNaN(a[j])
    ELSE CHOOSE i \in 0..(n - 1) :
            /\ \A j \in 0..(n - 1) : FLe(a[j], a[i])
            /\ \A j \in 0..(i - 1) : FLt(a[j], a[i]))

\* g = zeros_like(intens); g[1:-1] = (intens[2:] - intens[:-2]) / 2.0
Gradient(intens, n) ==
    Array([i \in 0..(n - 1) |->
        IF i >= 1 /\ i <= n - 2 THEN NpDiv(FSub(intens[i + 1], intens[i - 1]), F(2)) ELSE F(0)])

\* the result records the offset returned, the index imax selected (None
\* when the search is not reached) and whether the parabola was applied
subpixel_from_gradient(tsa, intensa) ==
    Let(<<tsa, intensa>>, LAMBDA ti :
    Let(Gradient(ti[2], Cardinality(DOMAIN ti[2])), LAMBDA g :
    LET ts == ti[1]
        intens == ti[2]
        n == Cardinality(DOMAIN intens)
    IN IF n < 3
       THEN [offset |-> IF n = 0 THEN Exc ELSE ts[0], imax |-> None, parabola |-> FALSE]
       ELSE Let(ArgMax(Array([i \in 0..(n - 1) |-> FAbs(g[i])]), n), LAMBDA imax :
               IF imax <= 0 \/ imax >= n - 1
               THEN [offset |-> ts[imax], imax |-> imax, parabola |-> FALSE]
               ELSE LET y1 == g[imax - 1]
                        y2 == g[imax]
                        y3 == g[imax + 1]
                        denom == FMul(F(2), FAdd(FSub(y1, FMul(F(2), y2)), y3))
                    IN IF BelowEps(denom)
                       THEN [offset |-> ts[imax], imax |-> imax, parabola |-> FALSE]
                       ELSE LET dt0 == NpDiv(FSub(y1, y3), denom)
                                dt == PyMax(F(-1), PyMin(F(1), dt0))
                                spacing == IF n > 1 THEN FSub(ts[1], ts[0]) ELSE F(1)
                            IN [offset |-> FAdd(ts[imax], FMul(dt, spacing)),
                                imax |-> imax, parabola |-> TRUE])))

\* ------------------------------------------------------ refiner, inputs
PixVals == {0, 8}
Images ==
    UNION { [h : {hw[1]}, w : {hw[2]}, px : [0..(hw[1] - 1) -> [0..(hw[2] - 1) -> PixVals]]] :
            hw \in (1..MaxH) \X (1..MaxW) }
\* sampling coordinates: inside, on the edges, outside and far outside
Coords ==
    {Fin(50 * j) : j \in (-2)..(2 * MaxW + 1)} \cup {Fin(-4000), Fin(4000), Fin(30), Fin(-1), Inf, NInf}
\* approximate contact points and unit normals given to sample_along_normal
SamplePts == {Fin(50 * j) : j \in 0..(2 * MaxW - 2)}
Normals == {<<F(1), F(0)>>, <<F(0), F(1)>>, <<Fin(-60), Fin(80)>>}
Spacings == {Fin(70)}

NoBs == [val |-> F(0), reads |-> {}, clamped |-> FALSE]
NoProf == [ts |-> <<>>, intens |-> <<>>, reads |-> {}]
NoSub == [offset |-> F(0), imax |-> None, parabola |-> FALSE]

NoField == [h |-> 1, w |-> 1, px |-> [r \in {0} |-> [c \in {0} |-> 0]]]
RefineIdle ==
    /\ field = NoField
    /\ rop = "off"
    /\ bsArgs = <<F(0), F(0)>>
    /\ bsRes = NoBs
    /\ prof = NoProf
    /\ sub = NoSub
FitIdle ==
    /\ rng = 0
    /\ rng0 = 0
    /\ args = <<>>
    /\ fit = <<>>
AnIdle ==
    /\ apc = "off"
    /\ inp = <<>>
    /\ an = <<>>

InitRefine ==
    /\ FitIdle
    /\ AnIdle
    /\ field \in Images
    /\ rop = "init"
    /\ bsArgs = <<F(0), F(0)>>
    /\ bsRes = NoBs
    /\ prof = NoProf
    /\ sub = NoSub

\* one call bilinear_sample(img_gray, x, y)
DoBilinear ==
    \E x \in Coords, y \in Coords :
        /\ rop = "init"
        /\ rop' = "bilinear"
        /\ bsArgs' = <<x, y>>
        /\ bsRes' = bilinear_sample(field, x, y)
        /\ prof' = NoProf
        /\ sub' = NoSub
        /\ UNCHANGED field
        /\ UNCHANGED <<fitVars, anVars>>

\* one call sample_along_normal(img_gray, px, py, nx, ny, length, spacing)
DoSample ==
    \E px \in SamplePts, py \in SamplePts, nv \in Normals, length \in 1..MaxLen, spacing \in Spacings :
        /\ rop = "init"
        /\ rop' = "sample"
        /\ prof' = sample_along_normal(field, px, py, nv[1], nv[2], length, spacing)
        /\ bsArgs' = <<F(0), F(0)>>
        /\ bsRes' = NoBs
        /\ sub' = NoSub
        /\ UNCHANGED field
        /\ UNCHANGED <<fitVars, anVars>>

\* subpixel_from_gradient(ts, intens) on the profile just sampled
DoSubpixel ==
    /\ rop = "sample"
    /\ rop' = "subpixel"
    /\ sub' = subpixel_from_gradient(prof.ts, prof.intens)
    /\ UNCHANGED <<field, bsArgs, bsRes, prof>>
    /\ UNCHANGED <<fitVars, anVars>>

NextRefine == DoBilinear \/ DoSample \/ DoSubpixel
SpecRefine == InitRefine /\ [][NextRefine]_vars

ProfLen == Cardinality(DOMAIN prof.intens)
ValidReads(reads) == \A rc \in reads : rc[1] \in 0..(field.h - 1) /\ rc[2] \in 0..(field.w - 1)
Defined(x) == IsFin(x)

\* C7: bilinear_sample reads only pixels inside the field and returns a
\* defined value for every coordinate, and outside the interpolable region
\* it returns the pixel nearest to the clamped coordinate
BilinearSafe ==
    /\ rop = "bilinear" =>
         /\ ValidReads(bsRes.reads)
         /\ Defined(bsRes.val)
         /\ bsRes.clamped =>
              LET xc == PyMin(PyMax(bsArgs[1], F(0)), F(field.w - 1))
                  yc == PyMin(PyMax(bsArgs[2], F(0)), F(field.h - 1))
              IN /\ FLe(F(0), xc) /\ FLe(xc, F(field.w - 1))
                 /\ FLe(F(0), yc) /\ FLe(yc, F(field.h - 1))
                 /\ bsRes.reads = {<<PyRound(yc), PyRound(xc)>>}
                 /\ bsRes.val = F(field.px[PyRound(yc)][PyRound(xc)])
    /\ rop \in {"sample", "subpixel"} =>
         /\ ValidReads(prof.reads)
         /\ \A i \in DOMAIN prof.intens : Defined(prof.intens[i])
BilinearSafeWitness ==
    /\ rop = "bilinear" /\ bsRes.clamped /\ bsArgs[1] = Fin(4000) /\ bsArgs[2] = Fin(-4000)
    /\ field.w >= 2 /\ bsRes.reads = {<<0, field.w - 1>>}

\* C8: the index selected by the peak search is never the first or the
\* last sample of a profile of length >= 3
PeakExcludesEndpoints ==
    (rop = "subpixel" /\ ProfLen >= 3) => sub.imax \in 1..(ProfLen - 2)

\* C9: a peak at the first or last eligible sample returns that sample's
\* offset, without parabola refinement
EligibleEdgeUnrefined ==
    (rop = "subpixel" /\ ProfLen >= 3 /\ sub.imax \in {1, ProfLen - 2}) =>
        sub.offset = prof.ts[sub.imax]

\* ------------------------------------------------------ robust line fit
\* random._randbelow(k): advances the generator and returns a value below k
RngStep(s) == (5 * s + 3) % RngMod
RandBelow(s, k) == (RngStep(s) \div 2) % k

\* random.sample(range(n), 2) for n <= 21: two draws from a pool, the
\* drawn slot being refilled with the last element of the pool
RandomSample2(s, n) ==
    LET s1 == RngStep(s)
        j1 == RandBelow(s, n)
        s2 == RngStep(s1)
        j2 == RandBelow(s1, n - 1)
    IN [i1 |-> j1, i2 |-> IF j2 = j1 THEN n - 1 ELSE j2, rng |-> s2]

\* np.allclose(p, q): abs(p - q) <= atol + rtol * abs(q) in every
\* coordinate, atol = 1e-8 and rtol = 1e-5
Tolerance(q) == Fin(AbsI(q.v) \div 100000)
AllClose(p, q) == \A i \in 1..2 : FLe(FAbs(FSub(p[i], q[i])), Tolerance(q[i]))

\* points are arrays indexed from 0 in the code; Pt(points, i) is points[i]
Pt(points, i) == points[i + 1]

\* one round of the loop of ransac_line_fit on the sampled pair: the
\* candidate formed, or valid = FALSE when the round is skipped
Candidate(points, thresh, i1, i2) ==
    LET p1 == Pt(points, i1)
        p2 == Pt(points, i2)
        dx == FSub(p2[1], p1[1])
        dy == FSub(p2[2], p1[2])
        a == dy
        b == FNeg(dx)
        c == FNeg(FAdd(FMul(a, p1[1]), FMul(b, p1[2])))
        denom == FHypot(a, b)
        dist(q) == NpDiv(FAbs(FAdd(FAdd(FMul(a, q[1]), FMul(b, q[2])), c)), denom)
        inl == Cardinality({i \in 1..Len(points) : FLt(dist(points[i]), thresh)})
    IN IF AllClose(p1, p2) \/ FEq(denom, F(0))
       THEN [valid |-> FALSE, inliers |-> 0, abc |-> <<>>]
       ELSE [valid |-> TRUE, inliers |-> inl,
             abc |-> <<NpDiv(a, denom), NpDiv(b, denom), NpDiv(c, denom)>>]

\* a plausible slip: a later candidate with as many inliers replaces best
BetterOrEqual(inliers, best_inliers) == inliers >= best_inliers

\* the update of best and best_inliers, line 62
Better(inliers, best_inliers) == inliers > best_inliers

RECURSIVE SumF(_, _)
SumF(f, n) == IF n = 0 THEN F(0) ELSE FAdd(f[n], SumF(f, n - 1))

\* cv2.fitLine(points, DIST_L2): the orthogonal least squares line, as
\* (vx, vy, x0, y0) with (vx, vy) a unit direction and (x0, y0) the centroid
FitLineL2(points) ==
    Let(<<FDiv(SumF([i \in 1..Len(points) |-> points[i][1]], Len(points)), F(Len(points))),
          FDiv(SumF([i \in 1..Len(points) |-> points[i][2]], Len(points)), F(Len(points)))>>,
        LAMBDA mean :
    LET n == Len(points)
        mx == mean[1]
        my == mean[2]
        sxx == SumF([i \in 1..n |-> FMul(FSub(points[i][1], mx), FSub(points[i][1], mx))], n)
        syy == SumF([i \in 1..n |-> FMul(FSub(points[i][2], my), FSub(points[i][2], my))], n)
        sxy == SumF([i \in 1..n |-> FMul(FSub(points[i][1], mx), FSub(points[i][2], my))], n)
        d == FSub(sxx, syy)
        root == FSqrt(FAdd(FMul(d, d), FMul(F(4), FMul(sxy, sxy))))
        ux == FAdd(d, root)
        uy == FMul(F(2), sxy)
        norm == FHypot(ux, uy)
    IN IF BelowEps(norm)
       THEN (IF FLt(d, F(0)) THEN <<F(0), F(1), mx, my>> ELSE <<F(1), F(0), mx, my>>)
       ELSE <<FDiv(ux, norm), FDiv(uy, norm), mx, my>>)

Returned(m, c) == [st |-> "returned", m |-> m, c |-> c]
Pending == [st |-> "pending", m |-> F(0), c |-> F(0)]

\* the tail of ransac_line_fit: the fallback when no candidate was formed,
\* otherwise the slope and intercept of the retained candidate
LineOfBest(best, points) ==
    IF best = <<>>
    THEN Let(FitLineL2(points), LAMBDA l :
            IF BelowEps(l[1])
            THEN Returned(Inf, l[3])
            ELSE LET m == FDiv(l[2], l[1])
                 IN Returned(m, FSub(l[4], FMul(m, l[3]))))
    ELSE LET a_n == best[1]
             b_n == best[2]
             c_n == best[3]
         IN IF ~BelowEps(b_n)
            THEN Returned(NpDiv(FNeg(a_n), b_n), NpDiv(FNeg(c_n), b_n))
            ELSE Returned(Inf, IF ~FEq(a_n, F(0)) THEN NpDiv(FNeg(c_n), a_n) ELSE F(0))

\* what ransac_line_fit returns for fewer than 2 points
TooFewPoints == Returned(F(0), F(0))

\* the loop of ransac_line_fit from round it on, as a function of the
\* generator state: the retained candidate after the last round
RECURSIVE RansacLoop(_, _, _, _, _, _)
RansacLoop(points, thresh, s, it, best, best_inliers) ==
    IF it >= MaxIters THEN best
    ELSE Let(RandomSample2(s, Len(points)), LAMBDA smp :
         Let(Candidate(points, thresh, smp.i1, smp.i2), LAMBDA cand :
            IF cand.valid /\ Better(cand.inliers, best_inliers)
            THEN RansacLoop(points, thresh, smp.rng, it + 1, cand.abc, cand.inliers)
            ELSE RansacLoop(points, thresh, smp.rng, it + 1, best, best_inliers)))

\* ransac_line_fit(points, n_iters, thresh) run from generator state s
ransac_line_fit(pointsa, thresh, s) ==
    Let(pointsa, LAMBDA points :
    IF Len(points) < 2 THEN TooFewPoints
    ELSE Let(RansacLoop(points, thresh, s, 0, <<>>, -1), LAMBDA best : LineOfBest(best, points)))

\* ------------------------------------------------- line fit, two requests
Requests == {"A", "B"}
GridPts == {<<F(x), F(y)>> : x \in {0, 1, 4}, y \in {0, 1}}
LexLe(p, q) == p[1].v < q[1].v \/ (p[1].v = q[1].v /\ p[2].v <= q[2].v)
PointLists ==
    {pl \in UNION {[1..n -> GridPts] : n \in 0..MaxPts} :
        \A i \in 1..(Len(pl) - 1) : LexLe(pl[i], pl[i + 1])}
OtherPointLists ==
    {<<>>, <<<<F(0), F(0)>>, <<F(1), F(1)>>>>, <<<<F(0), F(0)>>, <<F(1), F(0)>>, <<F(4), F(1)>>>>}
Thresholds == {Fin(50), Fin(350)}

FitLocals(pc, it, best, best_inliers, hist, result) ==
    [pc |-> pc, it |-> it, best |-> best, best_inliers |-> best_inliers,
     hist |-> hist, result |-> result]

InitFit ==
    /\ RefineIdle
    /\ AnIdle
    /\ rng \in 0..(RngMod - 1)
    /\ rng0 = rng
    /\ \E pa \in PointLists, pb \in OtherPointLists, th \in Thresholds :
          args = [r \in Requests |->
                    IF r = "A" THEN [points |-> pa, thresh |-> th]
                    ELSE [points |-> pb, thresh |-> Fin(350)]]
    /\ fit = [r \in Requests |-> FitLocals("idle", 0, <<>>, -1, <<>>, Pending)]

\* the event loop runs one call of ransac_line_fit at a time: the call has
\* no suspension point
NoneInLoop == \A q \in Requests : fit[q].pc # "loop"

\* ransac_line_fit is entered: lines 42 to 46
FitStart(r) ==
    /\ fit[r].pc = "idle"
    /\ NoneInLoop
    /\ fit' = [fit EXCEPT ![r] =
                 IF Len(args[r].points) < 2
                 THEN FitLocals("done", 0, <<>>, -1, <<>>, TooFewPoints)
                 ELSE FitLocals("loop", 0, <<>>, -1, <<>>, Pending)]
    /\ UNCHANGED <<rng, rng0, args>>
    /\ UNCHANGED <<refVars, anVars>>

\* one round of the loop: lines 47 to 64.  hist records the candidates
\* formed, in the order of their rounds
FitRound(r) ==
    /\ fit[r].pc = "loop"
    /\ fit[r].it < MaxIters
    /\ \E smp \in {RandomSample2(rng, Len(args[r].points))} :
       \E cand \in {Candidate(args[r].points, args[r].thresh, smp.i1, smp.i2)} :
       LET upd == cand.valid /\ Better(cand.inliers, fit[r].best_inliers)
           h == IF cand.valid
                THEN Append(fit[r].hist,
                            [round |-> fit[r].it, inliers |-> cand.inliers, abc |-> cand.abc,
                             p1 |-> Pt(args[r].points, smp.i1), p2 |-> Pt(args[r].points, smp.i2)])
                ELSE fit[r].hist
       IN /\ rng' = smp.rng
          /\ fit' = [fit EXCEPT ![r] =
                       FitLocals("loop", fit[r].it + 1,
                                 IF upd THEN cand.abc ELSE fit[r].best,
                                 IF upd THEN cand.inliers ELSE fit[r].best_inliers,
                                 h, Pending)]
    /\ UNCHANGED <<rng0, args>>
    /\ UNCHANGED <<refVars, anVars>>

\* after the last round: lines 65 to 80
FitReturn(r) ==
    /\ fit[r].pc = "loop"
    /\ fit[r].it >= MaxIters
    /\ fit' = [fit EXCEPT ![r].pc = "done",
                          ![r].result = LineOfBest(fit[r].best, args[r].points)]
    /\ UNCHANGED <<rng, rng0, args>>
    /\ UNCHANGED <<refVars, anVars>>

NextFit == \E r \in Requests : FitStart(r) \/ FitRound(r) \/ FitReturn(r)
Spec == InitFit /\ [][NextFit]_vars

\* C1: ransac_line_fit called with fewer than 2 points fails with
\* InsufficientData instead of returning a Line
TooFewPointsRaises ==
    \A r \in Requests :
        (fit[r].pc = "done" /\ Len(args[r].points) < 2) => fit[r].result.st = "InsufficientData"

\* C2: the Line a request gets is the one it gets when it runs alone from
\* the same generator state, whether or not another request's fit ran before
RequestLocalRandom ==
    \A r \in Requests :
        fit[r].pc = "done" =>
            fit[r].result = ransac_line_fit(args[r].points, args[r].thresh, rng0)

\* the index in hist of the earliest candidate with the highest inlier count
EarliestMax(hist) ==
    CHOOSE i \in 1..Len(hist) :
        /\ \A j \in 1..Len(hist) : hist[j].inliers <= hist[i].inliers
        /\ \A j \in 1..(i - 1) : hist[j].inliers < hist[i].inliers

\* the line (m, c) passes within LineTol of point q; a vertical line is
\* x = c
LineTol == Fin(25)
OnLine(res, q) ==
    IF res.m = Inf THEN FLe(FAbs(FSub(q[1], res.c)), LineTol)
    ELSE IsFin(res.m) /\ FLe(FAbs(FSub(FAdd(FMul(res.m, q[1]), res.c), q[2])), LineTol)

\* C10: the retained candidate is the earliest one with the highest inlier
\* count among the candidates formed so far, and the Line returned is the
\* line of that candidate
RetainsEarliestBest ==
    \A r \in Requests :
        (fit[r].pc \in {"loop", "done"} /\ Len(args[r].points) >= 2) =>
            IF fit[r].hist = <<>>
            THEN fit[r].best = <<>>
            ELSE LET w == fit[r].hist[EarliestMax(fit[r].hist)]
                 IN /\ fit[r].best = w.abc
                    /\ fit[r].best_inliers = w.inliers
                    /\ fit[r].pc = "done" =>
                         /\ fit[r].result.st = "returned"
                         /\ (fit[r].result.m = Inf) <=> (w.p1[1] = w.p2[1])
                         /\ OnLine(fit[r].result, w.p1)
                         /\ OnLine(fit[r].result, w.p2)
RetainsEarliestBestWitness ==
    \E r \in Requests :
        /\ fit[r].pc = "done"
        /\ \E i, j \in 1..Len(fit[r].hist) :
              /\ i < j
              /\ fit[r].hist[i].inliers < fit[r].hist[j].inliers
        /\ \E i, j \in 1..Len(fit[r].hist) :
              /\ i < j
              /\ i = EarliestMax(fit[r].hist)
              /\ fit[r].hist[i].inliers = fit[r].hist[j].inliers
              /\ fit[r].hist[i].abc # fit[r].hist[j].abc

\* -------------------------------------------------- ellipse and baseline
\* rotations phi of the ellipse, by name, with math.cos and math.sin
Cos(phi) == CASE phi = "0" -> F(1) [] phi = "53" -> Fin(60) [] phi = "90" -> F(0)
Sin(phi) == CASE phi = "0" -> F(0) [] phi = "53" -> Fin(80) [] phi = "90" -> F(1)

Sq(x) == FMul(x, x)

\* the list of intersection points <<x, y>>
solve_ellipse_line_intersection(h, k, a, b, phi, m, cc) ==
    LET c == Cos(phi)
        s == Sin(phi)
        u == FAdd(c, FMul(s, m))
        v == FAdd(FNeg(s), FMul(c, m))
        p == FAdd(FMul(c, FNeg(h)), FMul(s, FSub(cc, k)))
        q == FAdd(FMul(FNeg(s), FNeg(h)), FMul(c, FSub(cc, k)))
        A == FAdd(FDiv(Sq(u), FMul(a, a)), FDiv(Sq(v), FMul(b, b)))
        B == FAdd(FDiv(FMul(FMul(F(2), u), p), FMul(a, a)),
                  FDiv(FMul(F(2), FMul(v, q)), FMul(b, b)))
        C == FSub(FAdd(FDiv(Sq(p), FMul(a, a)), FDiv(Sq(q), FMul(b, b))), F(1))
    IN IF BelowEps(A)
       THEN (IF BelowEps(B) THEN <<>>
             ELSE LET x == FDiv(FNeg(C), B)
                  IN << <<x, FAdd(FMul(m, x), cc)>> >>)
       ELSE LET disc == FSub(FMul(B, B), FMul(FMul(F(4), A), C))
            IN IF FLt(disc, F(0)) THEN <<>>
               ELSE LET x1 == FDiv(FAdd(FNeg(B), FSqrt(disc)), FMul(F(2), A))
                        x2 == FDiv(FSub(FNeg(B), FSqrt(disc)), FMul(F(2), A))
                    IN << <<x1, FAdd(FMul(m, x1), cc)>>, <<x2, FAdd(FMul(m, x2), cc)>> >>

analytic_tangent_slope_at_point(x0, y0, h, k, a, b, phi) ==
    LET dx == FSub(x0, h)
        dy == FSub(y0, k)
        c == Cos(phi)
        s == Sin(phi)
        xr == FAdd(FMul(dx, c), FMul(dy, s))
        yr == FAdd(FMul(FNeg(dx), s), FMul(dy, c))
        dFdxr == FDiv(FMul(F(2), xr), FMul(a, a))
        dFdyr == FDiv(FMul(F(2), yr), FMul(b, b))
        dFdx == FSub(FMul(dFdxr, c), FMul(dFdyr, s))
        dFdy == FAdd(FMul(dFdxr, s), FMul(dFdyr, c))
    IN IF BelowEps(dFdy) THEN Inf ELSE FDiv(FNeg(dFdx), dFdy)

\* math.isfinite and math.isinf
IsFinite(x) == IsFin(x)
IsInf(x) == IsInfinite(x)

\* the k-th smallest (k from 0) of the values ys[1..n]
Kth(ys, k) ==
    LET n == Len(ys)
    IN CHOOSE v \in {ys[i] : i \in 1..n} :
          /\ Cardinality({i \in 1..n : FLt(ys[i], v)}) <= k
          /\ Cardinality({i \in 1..n : FLe(ys[i], v)}) > k

\* np.percentile(ys, 70): linear interpolation at rank 0.7 * (n - 1)
Percentile70(ys) ==
    LET n == Len(ys)
        rank == Fin(70 * (n - 1))
        lo == PyFloor(rank)
        frac == FSub(rank, F(lo))
        hi == IF lo + 1 <= n - 1 THEN lo + 1 ELSE n - 1
    IN FAdd(Kth(ys, lo), FMul(frac, FSub(Kth(ys, hi), Kth(ys, lo))))

\* pts[pts[:,1] >= y_thresh]
RECURSIVE SelectPts(_, _)
SelectPts(pts, y_thresh) ==
    IF pts = <<>> THEN <<>>
    ELSE IF FGe(Head(pts)[2], y_thresh) THEN <<Head(pts)>> \o SelectPts(Tail(pts), y_thresh)
    ELSE SelectPts(Tail(pts), y_thresh)

\* lines 209 to 213 of analyze: the points given to the line fitter
BottomPts(pts) ==
    LET y_thresh == Percentile70([i \in 1..Len(pts) |-> pts[i][2]])
        bottom_pts == SelectPts(pts, y_thresh)
    IN IF Len(bottom_pts) < 6 THEN pts ELSE bottom_pts

\* ---------------------------------------------------------------- analyze
\* the intersections that lie in the image: lines 218 to 222
InImage(inters, w_img, h_img) ==
    SelectSeq(inters, LAMBDA q : /\ FLe(F(0), q[1]) /\ FLt(q[1], F(w_img))
                                 /\ FLe(F(0), q[2]) /\ FLt(q[2], F(h_img)))

\* line 224: the distance of each contour point to the baseline
BaselineDists(pts, m, c) ==
    Array([i \in 1..Len(pts) |->
        NpDiv(FAbs(FAdd(FSub(FMul(m, pts[i][1]), pts[i][2]), c)),
              FAdd(FHypot(m, F(-1)), Fin(0)))])

\* the order of np.argsort: NaN sorts after every number
KeyLt(d, e) == FLt(d, e) \/ (IsNaN(e) /\ ~IsNaN(d))

\* line 225: the index sets np.argsort(dists)[:min(len(pts), 200)] can
\* select; the order among equal distances is not specified by the sort
NClose == 200
CloseSets(dists, n) ==
    IF n <= NClose THEN {1..n}
    ELSE {T \in SUBSET (1..n) :
            /\ Cardinality(T) = NClose
            /\ \A i \in T, j \in (1..n) \ T : ~KeyLt(dists[j], dists[i])}

\* the indices an argsort order can put first among the indices S
FirstInOrder(S, dists) == {i \in S : \A j \in S : ~KeyLt(dists[j], dists[i])}

\* lines 228 and 229: np.argmin and np.argmax return the first extremal
\* element of close_pts; the pairs <<left, right>> that can result
Extremes(pts, T, dists) ==
    LET minx == {i \in T : \A j \in T : FLe(pts[i][1], pts[j][1])}
        maxx == {i \in T : \A j \in T : FGe(pts[i][1], pts[j][1])}
    IN {<<pts[l], pts[r]>> : l \in FirstInOrder(minx, dists), r \in FirstInOrder(maxx, dists)}

\* a plausible slip: the fallback taken only without any intersection
NeedFallbackIfNone(candidates) == Len(candidates) < 1

\* line 223: the fallback to the boundary points is taken
NeedFallback(candidates) == Len(candidates) < 2

\* line 235: sorted(candidates, key=x), a stable sort of at most 2 points
SortByX(candidates) ==
    IF Len(candidates) = 2 /\ FLt(candidates[2][1], candidates[1][1])
    THEN <<candidates[2], candidates[1]>>
    ELSE candidates

\* lines 218 to 235: the candidate lists that can result
Candidates(pts, inters, m, c, w_img, h_img) ==
    Let(BaselineDists(pts, m, c), LAMBDA dists :
    LET c0 == IF Len(inters) >= 1 THEN InImage(inters, w_img, h_img) ELSE <<>>
        c1 == IF NeedFallback(c0)
              THEN UNION { IF Cardinality(T) >= 2 THEN Extremes(pts, T, dists) ELSE {c0} :
                           T \in CloseSets(dists, Len(pts)) }
              ELSE {c0}
        c2(cs) == IF Len(cs) = 1 THEN Append(cs, <<FAdd(cs[1][1], F(1)), cs[1][2]>>) ELSE cs
    IN {[list |-> SortByX(c2(cs)), fallback |-> NeedFallback(c0), usable |-> Len(c0)] : cs \in c1})

\* the arguments of sample_along_normal at line 251
ProfLength == 31
ProfSpacing == Fin(70)

\* refine_contact: lines 241 to 255
refine_contact(approx, ell, img_gray) ==
    Let(analytic_tangent_slope_at_point(approx[1], approx[2], ell.cx, ell.cy, ell.a, ell.b, ell.phi),
        LAMBDA mt :
    LET px == approx[1]
        py == approx[2]
        norm == FHypot(F(1), mt)
        tvec == IF IsInf(mt) THEN <<F(0), F(-1)>> ELSE <<FDiv(F(1), norm), FDiv(mt, norm)>>
        nx == FNeg(tvec[2])
        ny == tvec[1]
    IN Let(sample_along_normal(img_gray, px, py, nx, ny, ProfLength, ProfSpacing), LAMBDA sp :
       Let(subpixel_from_gradient(sp.ts, sp.intens).offset, LAMBDA dt :
           <<FAdd(px, FMul(nx, dt)), FAdd(py, FMul(ny, dt))>>)))

\* math.atan, math.pi and math.degrees
Pi == Fin(314)
HalfPi == Fin(157)
AtanUnit(x) == FMul(x, FAdd(Fin(79), FMul(Fin(27), FSub(F(1), FAbs(x)))))
Atan(x) ==
    CASE IsExc(x) -> Exc
      [] IsNaN(x) -> NaN
      [] x.k = "inf" -> HalfPi
      [] x.k = "ninf" -> FNeg(HalfPi)
      [] AbsI(x.v) <= SCALE -> AtanUnit(x)
      [] x.v > 0 -> FSub(HalfPi, AtanUnit(FDiv(F(1), x)))
      [] OTHER -> FAdd(FNeg(HalfPi), AtanUnit(FDiv(F(1), FNeg(x))))
Degrees(x) == FDiv(FMul(x, F(180)), Pi)

\* the finite surrogate 1e12 of lines 265, 267 and 271, capped at the
\* largest magnitude the representation divides by
Surrogate == Fin(1000000 * SCALE)
\* a plausible slip: the slope used as it is
KeepSlope(x) == x

Finite(x) == IF IsFinite(x) THEN x ELSE Surrogate

\* a plausible slip: the difference taken without abs
AngleDegSigned(t, mb) == Degrees(FSub(Atan(t), Atan(mb)))

\* lines 267 to 269: the angle between a tangent and the baseline, from
\* the two arguments given to math.atan
AngleDeg(t, mb) ==
    LET d == FAbs(FSub(Atan(t), Atan(mb)))
        folded == IF FGt(d, Pi) THEN FSub(FMul(F(2), Pi), d) ELSE d
    IN Degrees(folded)

Mean(l, r) == FMul(Fin(50), FAdd(l, r))

\* ------------------------------------------------------- analyze, inputs
P(x, y) == <<F(x), F(y)>>
Contours ==
    { <<P(1, 3), P(1, 2), P(2, 1), P(3, 2), P(3, 3), P(2, 3)>>,
      <<P(0, 3), P(1, 3), P(2, 3), P(3, 3), P(4, 3), P(5, 3), P(3, 1), P(2, 2)>>,
      <<P(2, 0), P(2, 1), P(2, 2), P(2, 3), P(3, 3), P(3, 1)>>,
      <<P(1, 1), P(3, 1), P(4, 2), P(3, 4), P(1, 4), P(0, 2), P(1, 1)>>,
      <<P(1, 3), P(2, 1), P(3, 3), P(2, 3), P(1, 3)>> }
Ellipses ==
    [cx : {Fin(50), F(2), Fin(250)}, cy : {F(2)}, a : {F(1), F(2)}, b : {F(1), F(2)}, phi : {"0", "53", "90"}]
\* img_gray: a flat field, a vertical edge and a horizontal edge
GrayFields ==
    { [h |-> ImgH, w |-> ImgW, px |-> [r \in 0..(ImgH - 1) |-> [c \in 0..(ImgW - 1) |-> 0]]],
      [h |-> ImgH, w |-> ImgW, px |-> [r \in 0..(ImgH - 1) |-> [c \in 0..(ImgW - 1) |-> IF c >= 2 THEN 8 ELSE 0]]],
      [h |-> ImgH, w |-> ImgW, px |-> [r \in 0..(ImgH - 1) |-> [c \in 0..(ImgW - 1) |-> IF r >= 3 THEN 8 ELSE 0]]] }

Zero2 == <<F(0), F(0)>>
NoLocals ==
    [m |-> F(0), c |-> F(0), inters |-> <<>>, candidates |-> <<>>, fallback |-> FALSE,
     usable |-> 0, left_refined |-> Zero2, right_refined |-> Zero2,
     left_mt |-> F(0), right_mt |-> F(0), atanArgs |-> <<>>,
     left_deg |-> F(0), right_deg |-> F(0), mean_deg |-> F(0)]

InitAnalyze ==
    /\ FitIdle
    /\ rop = "off" /\ bsArgs = <<F(0), F(0)>> /\ bsRes = NoBs /\ prof = NoProf /\ sub = NoSub
    /\ field \in GrayFields
    /\ apc = "start"
    /\ \E contour \in Contours, ell \in Ellipses :
          inp = [contour |-> contour, w_img |-> ImgW, h_img |-> ImgH, ell |-> ell]
    /\ an = NoLocals

PtExc(q) == IsExc(q[1]) \/ IsExc(q[2])

\* lines 190 to 192: a contour of fewer than 6 points is refused
AnContour ==
    /\ apc = "start"
    /\ apc' = IF Len(inp.contour) < 6 THEN "rejected" ELSE "fit"
    /\ UNCHANGED <<inp, an, refVars, fitVars>>

\* lines 209 to 215: the baseline fitted to the bottom points, from
\* whatever state the process-wide generator is in
AnFit ==
    /\ apc = "fit"
    /\ \E s \in 0..(RngMod - 1) :
          \E l \in {ransac_line_fit(BottomPts(inp.contour), Fin(350), s)} :
             an' = [an EXCEPT !.m = l.m, !.c = l.c]
    /\ apc' = "intersect"
    /\ UNCHANGED <<inp, refVars, fitVars>>

\* line 217
AnIntersect ==
    /\ apc = "intersect"
    /\ LET e == inp.ell
           inters == solve_ellipse_line_intersection(e.cx, e.cy, e.a, e.b, e.phi, an.m, an.c)
       IN /\ an' = [an EXCEPT !.inters = inters]
          /\ apc' = IF \E i \in 1..Len(inters) : PtExc(inters[i]) THEN "failed" ELSE "candidates"
    /\ UNCHANGED <<inp, refVars, fitVars>>

\* lines 218 to 237; candidates[1] of line 237 raises IndexError on a
\* list of fewer than two candidates
AnCandidates ==
    /\ apc = "candidates"
    /\ \E cs \in Candidates(inp.contour, an.inters, an.m, an.c, inp.w_img, inp.h_img) :
          /\ an' = [an EXCEPT !.candidates = cs.list, !.fallback = cs.fallback, !.usable = cs.usable]
          /\ apc' = IF Len(cs.list) < 2 THEN "failed" ELSE "refine"
    /\ UNCHANGED <<inp, refVars, fitVars>>

\* lines 257 to 261: both contact points refined, and the tangent slopes
\* at the refined points
AnRefine ==
    /\ apc = "refine"
    /\ \E l \in {refine_contact(an.candidates[1], inp.ell, field)},
          r \in {refine_contact(an.candidates[2], inp.ell, field)} :
          LET e == inp.ell
              lmt == analytic_tangent_slope_at_point(l[1], l[2], e.cx, e.cy, e.a, e.b, e.phi)
              rmt == analytic_tangent_slope_at_point(r[1], r[2], e.cx, e.cy, e.a, e.b, e.phi)
          IN /\ an' = [an EXCEPT !.left_refined = l, !.right_refined = r,
                                 !.left_mt = lmt, !.right_mt = rmt]
             /\ apc' = IF PtExc(l) \/ PtExc(r) \/ IsExc(lmt) \/ IsExc(rmt) THEN "failed" ELSE "angles"
    /\ UNCHANGED <<inp, refVars, fitVars>>

\* lines 263 to 274; atanArgs records the arguments given to math.atan
AnAngles ==
    /\ apc = "angles"
    /\ LET mb == Finite(an.m)
           lt == Finite(an.left_mt)
           rt == Finite(an.right_mt)
           left_deg == AngleDeg(lt, mb)
           right_deg == AngleDeg(rt, mb)
       IN an' = [an EXCEPT !.atanArgs = <<lt, rt, mb>>,
                           !.left_deg = left_deg, !.right_deg = right_deg,
                           !.mean_deg = Mean(left_deg, right_deg)]
    /\ apc' = "done"
    /\ UNCHANGED <<inp, refVars, fitVars>>

NextAnalyze == AnContour \/ AnFit \/ AnIntersect \/ AnCandidates \/ AnRefine \/ AnAngles
SpecAnalyze == InitAnalyze /\ [][NextAnalyze]_vars

Reached(positions) == apc \in positions

\* C3: every point solve_ellipse_line_intersection returns lies on the
\* baseline, also when the baseline is vertical
IntersectionsOnLine ==
    Reached({"candidates", "refine", "angles", "done", "failed"}) =>
        \A i \in 1..Len(an.inters) :
            LET q == an.inters[i]
            IN IF IsFinite(an.m)
               THEN FEq(q[2], FAdd(FMul(an.m, q[1]), an.c))
               ELSE FEq(q[1], an.c) /\ ~IsNaN(q[2])

InRange(x) == FLe(F(0), x) /\ FLe(x, F(180))
\* C5: the left and right angles are in [0, 180] and the mean angle is
\* their arithmetic mean (to one unit of the representation)
AnglesInRange ==
    apc = "done" =>
        /\ InRange(an.left_deg) /\ InRange(an.right_deg) /\ InRange(an.mean_deg)
        /\ AbsI(2 * an.mean_deg.v - (an.left_deg.v + an.right_deg.v)) <= 1
AnglesInRangeWitness ==
    /\ apc = "done" /\ an.m = Inf /\ an.left_mt = Inf /\ IsFin(an.right_mt)
    /\ an.left_deg # an.right_deg

\* C6: every argument of the arctangent is finite, a non-finite slope
\* being replaced by the surrogate, and the three angles are finite
AnglesFinite ==
    apc = "done" =>
        /\ \A i \in 1..3 : IsFin(an.atanArgs[i])
        /\ ~IsFinite(an.m) => an.atanArgs[3] = Surrogate
        /\ ~IsFinite(an.left_mt) => an.atanArgs[1] = Surrogate
        /\ ~IsFinite(an.right_mt) => an.atanArgs[2] = Surrogate
        /\ IsFin(an.left_deg) /\ IsFin(an.right_deg) /\ IsFin(an.mean_deg)
AnglesFiniteWitness ==
    /\ apc = "done" /\ an.fallback /\ ~IsFinite(an.right_mt) /\ IsFinite(an.m)

====
